---------------------------- MODULE Spec2Model ----------------------------
(***************************************************************************)
(* The render pool of pixelpose: renderer/cli.py (main, _spawn_workers,    *)
(* _create_jobs, _kill_workers), renderer/worker.py (worker_process),      *)
(* renderer/utils.py (render_job_iter, call_count_frames_script),          *)
(* renderer/model.py (RenderJob, RenderJobResult) and                      *)
(* renderer/scripts/count_frames.py (the frame-count query).               *)
(*                                                                         *)
(* The main process and every worker process are modelled by a program     *)
(* counter; the two multiprocessing queues are FIFO sequences.  The        *)
(* external subprocesses (Blender frame count, Blender render) and the     *)
(* PIL steps are nondeterministic in their outcome: they return or raise.  *)
(*                                                                         *)
(* RenderJob as declared in model.py has five fields, render_job_iter      *)
(* passes six values to it.  A run that enumerates its jobs through        *)
(* render_job_iter (entry = "cli") therefore raises as soon as one         *)
(* (target, source) pair exists.  To examine the pool with jobs in it, a   *)
(* run may also start with _create_jobs returning a list of RenderJob      *)
(* objects built by its caller (entry = "jobs_given"), with or without a   *)
(* pixel_size attribute set on them.                                       *)
(*                                                                         *)
(* Three specifications share the variables.  Spec is the pool: main(),    *)
(* the workers, the purge pass (_purge_errors) and the summary; a job is   *)
(* one step of count and one of render there.  JobSpec follows one job     *)
(* through count_frames.py and render.py (sampling loop, global bounds,    *)
(* camera, render loop) up to its RenderJobResult.  StickSpec is one call  *)
(* of render_stick_image of renderer/pose.py on one PoseFrame.  Each       *)
(* specification keeps the variables of the other two at their start.      *)
(***************************************************************************)
EXTENDS Integers, Sequences, FiniteSets, TLC

(* ------------------------------ bounds --------------------------------- *)
MaxWorkers == 2
MaxJobs == 2
\* Frames of the source action at most.
MaxFrames == 3
\* Joints of a PoseFrame given to render_stick_image at most.
MaxJoints == 2
MaxSide == 5

(* ------------------------ program constants ---------------------------- *)
\* model.py: RenderJob declares source_path, target_path, output_dir,
\* resolution, fps.
RenderJobFields == 5
\* utils.py render_job_iter: RenderJob(source_path, target_path, render_dir,
\* resolution, fps, pixel_size).
RenderJobArgs == 6

\* render.py _calculate_global_bbox_and_poses: original_fps = 30.
original_fps == 30
\* pose.py render_stick_image: line_width = 3, padding = 16.
line_width == 3
padding == 16
\* render.py parse_args: --render-padding defaults to 0 and
\* call_render_script does not pass it.
render_padding == 0

(* ---------------------------- input domains ---------------------------- *)
\* --fps is parsed with type=int and not validated (cli.py:19).
FpsValues == {-1, 0, 1}
\* total_frames = end_frame - start_frame + 1 of the source action.
TotalFramesValues == {1, 2}
\* scene.render.fps after the FBX import.
SceneFpsValues == {2}

\* One job through the scripts: --fps of the job, scene.render.fps after the
\* import (powers of two: the float quotient is then exact), first frame of
\* the action, bones of the target armature in pose.bones order (suffix of
\* each name) and the world positions a bone can take.
ScriptFps == {1, 12, 30}
ScriptSceneFps == {1, 4}
FrameStarts == {0, 1}
TargetArmatures == {<<"Hips">>, <<"Hips", "Spine">>}
Points == {<<0, 1, 2>>, <<1, 2, 0>>, <<2, 0, 1>>}

\* render_stick_image: the image sizes (job.resolution, even and odd), the
\* armature prefixes, and the joints a PoseFrame is made of, in the order
\* of the armature: three canonical suffixes and one that is not.
Resolutions == {64, 65}
Prefixes == {"mixamorig", "mixamorig1"}
JointUniverse == <<"Hips", "Spine", "LeftUpLeg", "HeadTop_End">>

Workers == 1..MaxWorkers
\* The processes render_stick_image is called in: the first call is made in
\* process 1, a second call in process 1 or in another worker process.
Processes == 1..2

VARIABLES
    entry,          \* "cli" | "jobs_given"
    args,           \* num_workers, count_only, fps, purge_errors
    source_dir,     \* [exists, files]
    target_dir,     \* [exists, files]
    given_pixel_size, \* jobs_given: the jobs carry a pixel_size attribute
    mainpc,         \* position of main()
    workers,        \* number of worker processes started so far
    jobs,           \* list returned by _create_jobs
    next_put,       \* index of the next job main puts on job_queue
    results,        \* list of results main has collected
    pills,          \* number of sentinels put by _kill_workers
    joined,         \* number of workers joined by _kill_workers
    raised,         \* exception that left main(), "" when none
    purge,          \* _purge_errors: position in results, purged, count
    files,          \* per source file: where it is, what was called on it
    job_queue,
    result_queue,
    wpc,            \* position of each worker_process
    job,            \* worker local: job
    frames_to_render, \* worker local
    error,          \* worker local
    error_message,  \* worker local
    log             \* history, per job: what was invoked for it

\* One job as the Blender scripts and the projection step see it
\* (count_frames.py, render.py, pose.py).
VARIABLES
    spc,            \* position in the processing of the job
    scene,          \* what Blender holds after the FBX import
    script_args,    \* arguments of the scripts: fps
    total_frames_to_render, \* what count_frames.py prints
    frame,          \* loop variable of _calculate_global_bbox_and_poses
    frame_poses,    \* list built by _calculate_global_bbox_and_poses
    global_bounds,  \* global_min_x .. global_max_z
    cam_obj,        \* the camera: data.ortho_scale, location
    frames_written, \* history: the files written by bpy.ops.render.render
    poses,          \* list built by _render_frames_with_poses
    job_result,     \* the RenderJobResult of the job
    stick_written,  \* history: the files written by render_stick_poses
    stick_in,       \* render_stick_image: img_w, img_h, pose
    stick_img,      \* render_stick_image: the image returned
    hash_order,     \* per process: the order iterating JOINT_SUFFIXES gives
    stick_img2      \* a second call on the same arguments: process, image

\* One frame as pixelize_frames sees it (utils.py).
VARIABLES
    frame_image,    \* Image.open(frame_path) and the pixel_size argument
    pixels          \* what pixels.save wrote, or the exception raised

\* One call of _retarget_armature (render.py).
VARIABLES
    source_arm,     \* source_arm.pose.bones: name, location, rotation, scale
    target_arm,     \* target_arm.pose.bones before the call
    retargeted      \* target_arm.pose.bones after the call

vars == <<entry, args, source_dir, target_dir, given_pixel_size, mainpc,
          workers, jobs, next_put, results, pills, joined, raised, purge,
          files, job_queue, result_queue, wpc, job, frames_to_render, error,
          error_message, log, spc, scene, script_args,
          total_frames_to_render, frame, frame_poses, global_bounds, cam_obj,
          frames_written, poses, job_result, stick_written, stick_in,
          stick_img,
          hash_order, stick_img2, frame_image, pixels, source_arm,
          target_arm, retargeted>>

purgeVars == <<purge, files>>
mainVars == <<mainpc, workers, jobs, next_put, results, pills, joined, raised,
              purgeVars>>
inputVars == <<entry, args, source_dir, target_dir, given_pixel_size>>
workerLocals == <<job, frames_to_render, error, error_message>>
scriptVars == <<spc, scene, script_args, total_frames_to_render, frame,
                frame_poses, global_bounds, cam_obj, frames_written, poses,
                job_result, stick_written>>
stickVars == <<stick_in, stick_img, hash_order, stick_img2>>
pixelVars == <<frame_image, pixels>>
retargetVars == <<source_arm, target_arm, retargeted>>
detailVars == <<scriptVars, stickVars, pixelVars, retargetVars>>
poolVars == <<inputVars, mainVars, job_queue, result_queue, wpc, workerLocals,
              log>>

(* ------------------------------ values --------------------------------- *)
\* The poison pill: job_queue.put(None).
None == [target |-> 0, source |-> 0, has_pixel_size |-> FALSE]

RenderJob(t, s, p) == [target |-> t, source |-> s, has_pixel_size |-> p]

RenderJobResult(j, f, e, m) ==
    [job |-> j, frames_rendered |-> f, error |-> e, error_message |-> m]

JobIds == (1..(MaxJobs)) \X (1..(MaxJobs))
Id(j) == <<j.target, j.source>>

\* History of one job: how often it was popped, counted, rendered, drawn,
\* pixelized and pushed as a result, and the count the query printed.
\* `raised` names the call that raised for it, "" when none did.
NoLog == [popped |-> 0, count |-> 0, estimate |-> 0, render |-> 0,
          stick |-> 0, pixelize |-> 0, raised |-> "", pushed |-> 0]

\* _purge_errors before its loop: count = 0, purged = [], the loop at the
\* first result.  `step` is the call the current iteration is about to make.
NoPurge == [i |-> 1, purged |-> <<>>, count |-> 0, step |-> "copy2"]

(* -------------------------- pure functions ----------------------------- *)
\* int(x) of Python for the rational n/d, d > 0: truncation toward zero.
TruncDiv(n, d) == IF n >= 0 THEN n \div d ELSE 0 - ((0 - n) \div d)

\* The count rounded to the nearest integer instead of truncated.
CountFrames_Round(total_frames, scene_fps, render_fps) ==
    LET n == total_frames * render_fps
        q == n \div scene_fps
        r == n % scene_fps
    IN  IF 2 * r < scene_fps THEN q
        ELSE IF 2 * r > scene_fps THEN q + 1
        ELSE IF q % 2 = 0 THEN q ELSE q + 1

\* count_frames.py: int(total_frames / scene_fps * render_fps).
CountFrames(total_frames, scene_fps, render_fps) ==
    TruncDiv(total_frames * render_fps, scene_fps)

\* The (target, source) pairs in the order of the nested loops of
\* render_job_iter: targets outside, sources inside.
JobList(T, S, p) ==
    [k \in 1..(T * S) |-> RenderJob(((k - 1) \div S) + 1, ((k - 1) % S) + 1, p)]

\* RenderJob(...) called with nargs positional values.
RenderJobInit(nargs) == IF nargs = RenderJobFields THEN "ok" ELSE "TypeError"

\* render_job_iter without the two exists() checks: a missing directory
\* globs to nothing.
render_job_iter_NoExistsCheck(sd, td) ==
    IF td.files * sd.files >= 1 /\ RenderJobInit(RenderJobArgs) # "ok"
    THEN [raised |-> RenderJobInit(RenderJobArgs), jobs |-> <<>>]
    ELSE [raised |-> "", jobs |-> JobList(td.files, sd.files, TRUE)]

\* utils.py render_job_iter, drained by list(): the exception it raises
\* ("" when none) and the jobs it yields.
render_job_iter(sd, td) ==
    IF ~sd.exists THEN [raised |-> "FileNotFoundError", jobs |-> <<>>]
    ELSE IF ~td.exists THEN [raised |-> "FileNotFoundError", jobs |-> <<>>]
    ELSE IF td.files * sd.files >= 1 /\ RenderJobInit(RenderJobArgs) # "ok"
         THEN [raised |-> RenderJobInit(RenderJobArgs), jobs |-> <<>>]
    ELSE [raised |-> "", jobs |-> JobList(td.files, sd.files, TRUE)]

\* float('inf'), float('-inf') and a finite float.
PosInf == [inf |-> 1, v |-> 0]
NegInf == [inf |-> -1, v |-> 0]
Fin(n) == [inf |-> 0, v |-> n]

\* global_min_x .. global_max_z before the sampling loop (render.py 257-262).
NoBounds == [min_x |-> PosInf, max_x |-> NegInf, min_y |-> PosInf,
             max_y |-> NegInf, min_z |-> PosInf, max_z |-> NegInf]

\* bpy.data.cameras.new: Blender's default ortho_scale is 6.0; the object is
\* created at the origin.  Lengths of the camera are in units of 1/200.
\* ortho_sets counts the assignments to data.ortho_scale.
NewCamera == [ortho_scale |-> 1200, location |-> <<0, 0, 0>>, ortho_sets |-> 0]

NoResult == [frames_rendered |-> 0, error |-> FALSE, error_message |-> ""]

\* The scripts' variables before a script has run.
ScriptStart ==
    /\ total_frames_to_render = 0
    /\ frame = 0
    /\ frame_poses = <<>>
    /\ global_bounds = NoBounds
    /\ cam_obj = NewCamera
    /\ frames_written = <<>>
    /\ poses = <<>>
    /\ job_result = NoResult
    /\ stick_written = <<>>

\* No job is followed through the scripts.
ScriptIdle ==
    /\ spc = "idle"
    /\ scene = [frame_start |-> 1, frame_end |-> 1, fps |-> 1, bones |-> <<"Hips">>]
    /\ script_args = [fps |-> 1]
    /\ ScriptStart

\* Image.new("RGBA", (img_w, img_h), (0, 0, 0, 0)) with nothing drawn; an
\* image is the list of the lines and the list of the ellipses drawn on it.
NoImage == [drawn |-> FALSE, lines |-> <<>>, ellipses |-> <<>>]

\* render_stick_image is not followed.
StickIdle ==
    /\ stick_in = [img_w |-> 0, img_h |-> 0, pose |-> <<>>]
    /\ stick_img = NoImage
    /\ hash_order = [p \in Processes |-> <<>>]
    /\ stick_img2 = [proc |-> 0, img |-> NoImage]

\* An image: its size and the colour of each pixel.
Image(width, height, px) == [size |-> <<width, height>>, px |-> px]
Coords(width, height) == (0..(width - 1)) \X (0..(height - 1))
NoPixels == [saved |-> FALSE, raised |-> "", img |-> Image(0, 0, <<>>)]

\* pixelize_frames is not followed.
PixelIdle ==
    /\ frame_image = [img |-> Image(0, 0, <<>>), pixel_size |-> 1]
    /\ pixels = NoPixels

\* _retarget_armature is not followed.
NotRetargeted == [done |-> FALSE, raised |-> "", bones |-> <<>>]
RetargetIdle ==
    /\ source_arm = <<>>
    /\ target_arm = <<>>
    /\ retargeted = NotRetargeted

(* ------------------------------- Init ---------------------------------- *)
Dirs == {[exists |-> FALSE, files |-> 0]} \cup
        {[exists |-> TRUE, files |-> n] : n \in 0..MaxJobs}

PoolInit ==
    /\ entry \in {"cli", "jobs_given"}
    /\ args \in [num_workers : 1..MaxWorkers, count_only : BOOLEAN,
                 fps : FpsValues, purge_errors : BOOLEAN]
    /\ source_dir \in Dirs
    /\ target_dir \in Dirs
    /\ source_dir.files * target_dir.files <= MaxJobs
    /\ given_pixel_size \in BOOLEAN
    /\ entry = "cli" => given_pixel_size
    /\ entry = "jobs_given" => source_dir.exists /\ target_dir.exists
    /\ mainpc = "spawn"
    /\ workers = 0
    /\ jobs = <<>>
    /\ next_put = 1
    /\ results = <<>>
    /\ pills = 0
    /\ joined = 0
    /\ raised = ""
    /\ purge = NoPurge
    /\ files = [s \in 1..MaxJobs |->
                  [original |-> s <= source_dir.files, copy |-> FALSE,
                   copy2 |-> 0, remove |-> 0]]
    /\ job_queue = <<>>
    /\ result_queue = <<>>
    /\ wpc = [w \in Workers |-> "unstarted"]
    /\ job = [w \in Workers |-> None]
    /\ frames_to_render = [w \in Workers |-> 0]
    /\ error = [w \in Workers |-> FALSE]
    /\ error_message = [w \in Workers |-> ""]
    /\ log = [i \in JobIds |-> NoLog]

Init == PoolInit /\ ScriptIdle /\ StickIdle /\ PixelIdle /\ RetargetIdle

\* The pool is not followed: main() has not started and has nothing to do.
PoolIdle ==
    /\ PoolInit
    /\ entry = "cli"
    /\ args = [num_workers |-> 1, count_only |-> FALSE, fps |-> 1,
               purge_errors |-> FALSE]
    /\ ~source_dir.exists
    /\ ~target_dir.exists

(* ------------------------------ main() --------------------------------- *)
\* _spawn_workers: one Process(target=worker_process).start() per iteration.
SpawnWorker ==
    /\ mainpc = "spawn"
    /\ workers < args.num_workers
    /\ workers' = workers + 1
    /\ wpc' = [wpc EXCEPT ![workers + 1] = "get"]
    /\ mainpc' = IF workers + 1 = args.num_workers THEN "create" ELSE "spawn"
    /\ UNCHANGED <<detailVars, inputVars, purgeVars, jobs, next_put, results, pills, joined, raised,
                   job_queue, result_queue, workerLocals, log>>

\* main going from _create_jobs straight to _kill_workers.
AfterCreate_SkipPut(js) == "kill"

\* Where main continues once `jobs` is known: the put loop, or, with no job,
\* past the put loop and the collect loop (completed < len(jobs) is false).
AfterCreate(js) == IF Len(js) = 0 THEN "kill" ELSE "put"

\* jobs = _create_jobs(args)
CreateJobs ==
    /\ mainpc = "create"
    /\ LET r == IF entry = "cli"
                THEN render_job_iter(source_dir, target_dir)
                ELSE [raised |-> "",
                      jobs |-> JobList(target_dir.files, source_dir.files,
                                       given_pixel_size)]
       IN  /\ raised' = r.raised
           /\ jobs' = r.jobs
           /\ mainpc' = IF r.raised # "" THEN "raised" ELSE AfterCreate(r.jobs)
    /\ UNCHANGED <<detailVars, inputVars, purgeVars, workers, next_put, results, pills, joined,
                   job_queue, result_queue, wpc, workerLocals, log>>

\* for j in jobs: job_queue.put(j)
PutJob ==
    /\ mainpc = "put"
    /\ job_queue' = Append(job_queue, jobs[next_put])
    /\ next_put' = next_put + 1
    /\ mainpc' = IF next_put = Len(jobs) THEN "collect" ELSE "put"
    /\ UNCHANGED <<detailVars, inputVars, purgeVars, workers, jobs, results, pills, joined, raised,
                   result_queue, wpc, workerLocals, log>>

\* The collect loop leaving one result early.
CollectResult_OneShort ==
    /\ mainpc = "collect"
    /\ result_queue # <<>>
    /\ results' = Append(results, Head(result_queue))
    /\ result_queue' = Tail(result_queue)
    /\ mainpc' = IF Len(results) + 2 >= Len(jobs) THEN "kill" ELSE "collect"
    /\ UNCHANGED <<detailVars, inputVars, purgeVars, workers, jobs, next_put, pills, joined,
                   raised, job_queue, wpc, workerLocals, log>>

\* while completed < len(jobs): r = result_queue.get(); results.append(r)
CollectResult ==
    /\ mainpc = "collect"
    /\ result_queue # <<>>
    /\ results' = Append(results, Head(result_queue))
    /\ result_queue' = Tail(result_queue)
    /\ mainpc' = IF Len(results) + 1 = Len(jobs) THEN "kill" ELSE "collect"
    /\ UNCHANGED <<detailVars, inputVars, purgeVars, workers, jobs, next_put, pills, joined, raised,
                   job_queue, wpc, workerLocals, log>>

\* _kill_workers with its first loop over workers[1:]: one sentinel fewer
\* than there are workers.
PutPill_OneShort ==
    /\ mainpc = "kill"
    /\ job_queue' = IF workers > 1 THEN Append(job_queue, None) ELSE job_queue
    /\ pills' = IF workers > 1 THEN pills + 1 ELSE pills
    /\ mainpc' = IF pills + 2 >= workers THEN "join" ELSE "kill"
    /\ UNCHANGED <<detailVars, inputVars, purgeVars, workers, jobs, next_put, results, joined,
                   raised,
                   result_queue, wpc, workerLocals, log>>

\* _kill_workers, first loop: for _ in workers: job_queue.put(None)
PutPill ==
    /\ mainpc = "kill"
    /\ job_queue' = Append(job_queue, None)
    /\ pills' = pills + 1
    /\ mainpc' = IF pills + 1 = workers THEN "join" ELSE "kill"
    /\ UNCHANGED <<detailVars, inputVars, purgeVars, workers, jobs, next_put, results, joined,
                   raised,
                   result_queue, wpc, workerLocals, log>>

\* Where main continues after _kill_workers: if args.purge_errors.
AfterKill == IF args.purge_errors THEN "purge" ELSE "display"

\* A worker process has ended: it returned from worker_process or an
\* exception left it.
Ended(w) == wpc[w] \in {"exited", "raised"}

\* _kill_workers, second loop: for worker in workers: worker.join()
JoinWorker ==
    /\ mainpc = "join"
    /\ Ended(joined + 1)
    /\ joined' = joined + 1
    /\ mainpc' = IF joined + 1 = workers THEN AfterKill ELSE "join"
    /\ UNCHANGED <<detailVars, inputVars, purgeVars, workers, jobs, next_put, results, pills,
                   raised,
                   job_queue, result_queue, wpc, workerLocals, log>>

\* if r.error: bad_file = r.job.source_path; if bad_file not in purged
ToPurge_NoSeenCheck(r, purged) == r.error

ToPurge(r, purged) ==
    /\ r.error
    /\ \A k \in 1..Len(purged) : purged[k] # r.job.source

\* _purge_errors going on to os.remove whether or not copy2 succeeded.
PurgeCopy_RemoveAnyway ==
    /\ mainpc = "purge"
    /\ purge.step = "copy2"
    /\ purge.i <= Len(results)
    /\ LET r == results[purge.i]
           s == r.job.source
       IN  IF ToPurge(r, purge.purged)
           THEN \E ok \in {b \in BOOLEAN : b => files[s].original} :
                  /\ files' = [files EXCEPT ![s].copy2 = @ + 1,
                                            ![s].copy = @ \/ ok]
                  /\ purge' = [purge EXCEPT !.step = "remove"]
                  /\ UNCHANGED <<mainpc, raised>>
           ELSE /\ purge' = [purge EXCEPT !.i = @ + 1]
                /\ UNCHANGED <<files, mainpc, raised>>
    /\ UNCHANGED <<detailVars, inputVars, workers, jobs, next_put, results, pills, joined,
                   job_queue, result_queue, wpc, workerLocals, log>>

\* _purge_errors, one iteration of `for r in results` up to and including
\* shutil.copy2(bad_file, args.purge_dir).  A result that is no error, or
\* whose source is in `purged`, ends the iteration.  copy2 raises when the
\* file is not there, and may raise when it is (OSError: permissions, full
\* disk); nothing in _purge_errors or main catches it.
PurgeCopy ==
    /\ mainpc = "purge"
    /\ purge.step = "copy2"
    /\ purge.i <= Len(results)
    /\ LET r == results[purge.i]
           s == r.job.source
       IN  IF ToPurge(r, purge.purged)
           THEN \E ok \in {b \in BOOLEAN : b => files[s].original} :
                  /\ files' = [files EXCEPT ![s].copy2 = @ + 1,
                                            ![s].copy = @ \/ ok]
                  /\ purge' = [purge EXCEPT !.step = IF ok THEN "remove" ELSE @]
                  /\ mainpc' = IF ok THEN "purge" ELSE "raised"
                  /\ raised' = IF ok THEN raised ELSE "OSError"
           ELSE /\ purge' = [purge EXCEPT !.i = @ + 1]
                /\ UNCHANGED <<files, mainpc, raised>>
    /\ UNCHANGED <<detailVars, inputVars, workers, jobs, next_put, results, pills, joined,
                   job_queue, result_queue, wpc, workerLocals, log>>

\* _purge_errors, the rest of the iteration: os.remove(bad_file);
\* purged.append(bad_file); count += 1.  os.remove may raise as well.
PurgeRemove ==
    /\ mainpc = "purge"
    /\ purge.step = "remove"
    /\ LET s == results[purge.i].job.source
       IN  \E ok \in {b \in BOOLEAN : b => files[s].original} :
             /\ files' = [files EXCEPT ![s].remove = @ + 1,
                                       ![s].original = @ /\ ~ok]
             /\ purge' = IF ok
                         THEN [i |-> purge.i + 1,
                               purged |-> Append(purge.purged, s),
                               count |-> purge.count + 1,
                               step |-> "copy2"]
                         ELSE purge
             /\ mainpc' = IF ok THEN "purge" ELSE "raised"
             /\ raised' = IF ok THEN raised ELSE "OSError"
    /\ UNCHANGED <<detailVars, inputVars, workers, jobs, next_put, results, pills, joined,
                   job_queue, result_queue, wpc, workerLocals, log>>

\* _purge_errors: the loop is over, return count; main prints
\* "Purged {count} files".
PurgeReturn ==
    /\ mainpc = "purge"
    /\ purge.step = "copy2"
    /\ purge.i > Len(results)
    /\ mainpc' = "display"
    /\ UNCHANGED <<detailVars, inputVars, purgeVars, workers, jobs, next_put, results,
                   pills, joined, raised, job_queue, result_queue, wpc,
                   workerLocals, log>>

\* _display_results(results): prints the totals, then main returns.
DisplayResults ==
    /\ mainpc = "display"
    /\ mainpc' = "done"
    /\ UNCHANGED <<detailVars, inputVars, purgeVars, workers, jobs, next_put, results,
                   pills, joined, raised, job_queue, result_queue, wpc,
                   workerLocals, log>>

\* The program has exited.  After main() returns, or after an exception
\* left it, the interpreter joins the workers still alive: they were started
\* as non-daemon processes (Process(...) without daemon=True).
ProgramExited ==
    /\ mainpc \in {"done", "raised"}
    /\ \A w \in 1..workers : Ended(w)

\* The exit status once the program has exited.
ExitStatus == IF mainpc = "raised" THEN 1 ELSE 0

(* -------------------------- worker_process ----------------------------- *)
\* The locals of worker w are dead: the next iteration assigns each of them
\* before reading it (lines 9, 16, 18, 19), and a process that has ended has
\* none.  They take their initial values.
Forget(w) ==
    /\ job' = [job EXCEPT ![w] = None]
    /\ frames_to_render' = [frames_to_render EXCEPT ![w] = 0]
    /\ error' = [error EXCEPT ![w] = FALSE]
    /\ error_message' = [error_message EXCEPT ![w] = ""]

\* A get that leaves the item on the queue.
GetJob_Peek(w) ==
    /\ wpc[w] = "get"
    /\ job_queue # <<>>
    /\ job_queue' = IF Head(job_queue) = None THEN Tail(job_queue) ELSE job_queue
    /\ job' = [job EXCEPT ![w] = Head(job_queue)]
    /\ IF Head(job_queue) = None
       THEN /\ wpc' = [wpc EXCEPT ![w] = "exited"]
            /\ log' = log
       ELSE /\ wpc' = [wpc EXCEPT ![w] = "count"]
            /\ log' = [log EXCEPT ![Id(Head(job_queue))].popped = @ + 1]
    /\ UNCHANGED <<detailVars, inputVars, mainVars, result_queue, frames_to_render, error,
                   error_message>>

\* job = job_queue.get(); if job is None: break
GetJob(w) ==
    /\ wpc[w] = "get"
    /\ job_queue # <<>>
    /\ job_queue' = Tail(job_queue)
    /\ job' = [job EXCEPT ![w] = Head(job_queue)]
    /\ IF Head(job_queue) = None
       THEN /\ wpc' = [wpc EXCEPT ![w] = "exited"]
            /\ log' = log
       ELSE /\ wpc' = [wpc EXCEPT ![w] = "count"]
            /\ log' = [log EXCEPT ![Id(Head(job_queue))].popped = @ + 1]
    /\ UNCHANGED <<detailVars, inputVars, mainVars, result_queue, frames_to_render, error,
                   error_message>>

\* What call_count_frames_script does: the subprocess exits non-zero
\* (check=True raises), prints something int() rejects, or prints the count.
CountOutcomes(fps) ==
    {[kind |-> k, n |-> 0] : k \in {"exit_nonzero", "non_integer"}} \cup
    {[kind |-> "integer", n |-> CountFrames(tf, sf, fps)] :
        tf \in TotalFramesValues, sf \in SceneFpsValues}

Failed(out) == out.kind # "integer"

\* The zero-frame test missing: a count of 0 goes on to the render.
AfterCount_RenderZero(n, count_only) ==
    IF ~count_only THEN "render" ELSE "put"

\* The count_only test missing: every non-zero count goes on to the render.
AfterCount_IgnoreCountOnly(n, count_only) ==
    IF n = 0 THEN "put" ELSE "render"

\* Where the worker continues after the count (worker.py lines 18-27).
AfterCount(n, count_only) ==
    IF n = 0 THEN "put"
    ELSE IF ~count_only THEN "render"
    ELSE "put"

\* frames_to_render = call_count_frames_script(job), then lines 18-27.
\* The call is outside the try block: its exception leaves worker_process.
CountJobFrames(w) ==
    /\ wpc[w] = "count"
    /\ \E out \in CountOutcomes(args.fps) :
         IF Failed(out)
         THEN /\ wpc' = [wpc EXCEPT ![w] = "raised"]
              /\ log' = [log EXCEPT ![Id(job[w])].count = @ + 1,
                                    ![Id(job[w])].raised = "count"]
              /\ Forget(w)
         ELSE /\ frames_to_render' = [frames_to_render EXCEPT ![w] = out.n]
              /\ error' = [error EXCEPT ![w] = (out.n = 0)]
              /\ error_message' = [error_message EXCEPT ![w] =
                                     IF out.n = 0 THEN "0 frames to render" ELSE ""]
              /\ wpc' = [wpc EXCEPT ![w] = AfterCount(out.n, args.count_only)]
              /\ log' = [log EXCEPT ![Id(job[w])].count = @ + 1,
                                    ![Id(job[w])].estimate = out.n]
              /\ UNCHANGED job
    /\ UNCHANGED <<detailVars, inputVars, mainVars, job_queue, result_queue>>

\* An except clause that records the message and forgets error = True.
Except_NoFlag(w, cause) ==
    /\ UNCHANGED error
    /\ error_message' = [error_message EXCEPT ![w] = "Render failed: " \o cause]

\* except Exception as e: error = True; error_message = f"Render failed: ..."
\* `cause` is the call that raised, named in the message.
Except(w, cause) ==
    /\ error' = [error EXCEPT ![w] = TRUE]
    /\ error_message' = [error_message EXCEPT ![w] = "Render failed: " \o cause]

\* The first call of the try block that raises, "none" when all return.
RaisePoints == {"render", "stick", "pixelize", "none"}

\* The try block of worker_process (lines 28-39), which touches nothing
\* shared with another process:
\*   frames_dir = call_render_script(job)
\*   render_stick_poses(poses_json_path, job.output_dir, ...)
\*   pixelize_frames(frames_dir, job.output_dir, pixel_size=job.pixel_size)
\* job.pixel_size is evaluated before pixelize_frames is called and raises
\* AttributeError when the job has no such attribute.
TryRender(w) ==
    /\ wpc[w] = "render"
    /\ \E at \in RaisePoints :
         LET id == Id(job[w]) IN
         IF at = "render"
         THEN /\ Except(w, "render")
              /\ log' = [log EXCEPT ![id].render = @ + 1,
                                    ![id].raised = "render"]
         ELSE IF at = "stick"
         THEN /\ Except(w, "stick")
              /\ log' = [log EXCEPT ![id].render = @ + 1, ![id].stick = @ + 1,
                                    ![id].raised = "stick"]
         ELSE IF ~job[w].has_pixel_size
         THEN /\ Except(w, "pixel_size")
              /\ log' = [log EXCEPT ![id].render = @ + 1, ![id].stick = @ + 1,
                                    ![id].raised = "pixel_size"]
         ELSE IF at = "pixelize"
         THEN /\ Except(w, "pixelize")
              /\ log' = [log EXCEPT ![id].render = @ + 1, ![id].stick = @ + 1,
                                    ![id].pixelize = @ + 1,
                                    ![id].raised = "pixelize"]
         ELSE /\ UNCHANGED <<error, error_message>>
              /\ log' = [log EXCEPT ![id].render = @ + 1, ![id].stick = @ + 1,
                                    ![id].pixelize = @ + 1]
    /\ wpc' = [wpc EXCEPT ![w] = "put"]
    /\ UNCHANGED <<detailVars, inputVars, mainVars, job_queue, result_queue, job,
                   frames_to_render>>

\* The result pushed without the job it belongs to.
PutResult_NoJob(w) ==
    /\ wpc[w] = "put"
    /\ result_queue' = Append(result_queue,
           RenderJobResult(None, frames_to_render[w], error[w], error_message[w]))
    /\ log' = [log EXCEPT ![Id(job[w])].pushed = @ + 1]
    /\ wpc' = [wpc EXCEPT ![w] = "get"]
    /\ Forget(w)
    /\ UNCHANGED <<detailVars, inputVars, mainVars, job_queue>>

\* result = RenderJobResult(job, frames_to_render, error, error_message)
\* result_queue.put(result)
PutResult(w) ==
    /\ wpc[w] = "put"
    /\ result_queue' = Append(result_queue,
           RenderJobResult(job[w], frames_to_render[w], error[w], error_message[w]))
    /\ log' = [log EXCEPT ![Id(job[w])].pushed = @ + 1]
    /\ wpc' = [wpc EXCEPT ![w] = "get"]
    /\ Forget(w)
    /\ UNCHANGED <<detailVars, inputVars, mainVars, job_queue>>

(* ---------------- one job through the Blender scripts ------------------ *)
Abs(n) == IF n < 0 THEN 0 - n ELSE n
Min2(a, b) == IF b < a THEN b ELSE a
Max2(a, b) == IF b > a THEN b ELSE a
SetMin(S) == CHOOSE m \in S : \A x \in S : m <= x
SetMax(S) == CHOOSE m \in S : \A x \in S : m >= x

\* round(x) of Python for the rational n/d, d > 0: to the nearest integer,
\* a tie to the even one.
PyRound(n, d) ==
    LET q == n \div d
        r == n % d
    IN  IF 2 * r < d THEN q
        ELSE IF 2 * r > d THEN q + 1
        ELSE IF q % 2 = 0 THEN q ELSE q + 1

\* min(a, b) and max(a, b) of Python, a an accumulator that starts at an
\* infinity and b a finite coordinate.
FloatMin(a, b) == IF a.inf = 1 \/ (a.inf = 0 /\ b < a.v) THEN Fin(b) ELSE a
FloatMax(a, b) == IF a.inf = -1 \/ (a.inf = 0 /\ b > a.v) THEN Fin(b) ELSE a

\* frame_step = max(1, round(original_fps / fps))
frame_step(fps) == Max2(1, PyRound(original_fps, fps))

\* _calculate_bbox_for_frame, the branch with bone positions: the armature
\* has at least one bone.  world[i] is the world position of pose.bones[i].
calculate_bbox_for_frame(world) ==
    LET xs == {world[i][1] : i \in 1..Len(world)}
        ys == {world[i][2] : i \in 1..Len(world)}
        zs == {world[i][3] : i \in 1..Len(world)}
    IN  [min_x |-> SetMin(xs), max_x |-> SetMax(xs),
         min_y |-> SetMin(ys), max_y |-> SetMax(ys),
         min_z |-> SetMin(zs), max_z |-> SetMax(zs)]

\* The global bounds replaced by the box of the frame just visited.
UpdateGlobalBounds_LastFrame(g, b) ==
    [min_x |-> Fin(b.min_x), max_x |-> Fin(b.max_x),
     min_y |-> Fin(b.min_y), max_y |-> Fin(b.max_y),
     min_z |-> Fin(b.min_z), max_z |-> Fin(b.max_z)]

\* "Update global bounds" (render.py 282-287).
UpdateGlobalBounds(g, b) ==
    [min_x |-> FloatMin(g.min_x, b.min_x), max_x |-> FloatMax(g.max_x, b.max_x),
     min_y |-> FloatMin(g.min_y, b.min_y), max_y |-> FloatMax(g.max_y, b.max_y),
     min_z |-> FloatMin(g.min_z, b.min_z), max_z |-> FloatMax(g.max_z, b.max_z)]

\* global_bbox as returned after the loop (render.py 294-300); the loop has
\* run at least once, the bounds are finite.  center is kept doubled.
GlobalBBox(g) ==
    [width |-> g.max_x.v - g.min_x.v,
     height |-> g.max_z.v - g.min_z.v,
     center2 |-> <<g.min_x.v + g.max_x.v, g.min_y.v + g.max_y.v,
                   g.min_z.v + g.max_z.v>>,
     min_z |-> g.min_z.v,
     max_z |-> g.max_z.v,
     depth |-> g.max_y.v - g.min_y.v]

\* _position_camera_for_sprite_sheet with padding = 1.1, in units of 1/200:
\* ortho_scale = character_size * 1.1 + render_padding * 0.01,
\* location = (-character_size * 1.1 * 0.5, center.y, min_z + ortho_scale / 2).
position_camera_for_sprite_sheet(cam, bbox) ==
    LET character_size == Max2(bbox.width, bbox.height)
        ortho_scale == 220 * character_size + 2 * render_padding
    IN  [ortho_scale |-> ortho_scale,
         location |-> <<0 - 110 * character_size,
                        100 * bbox.center2[2],
                        200 * bbox.min_z + ortho_scale \div 2>>,
         ortho_sets |-> cam.ortho_sets + 1]

\* The per-frame update also refitting the scale to the frame's own box.
update_camera_for_frame_Refit(cam, world) ==
    LET b == calculate_bbox_for_frame(world)
        size == Max2(b.max_x - b.min_x, b.max_z - b.min_z)
    IN  [ortho_scale |-> 220 * size + 2 * render_padding,
         location |-> <<0 - Abs(cam.location[1]), 200 * world[1][2],
                        200 * world[1][3]>>,
         ortho_sets |-> cam.ortho_sets + 1]

\* _update_camera_for_frame: the root bone pose.bones[0] is the reference
\* point; location = (-abs(location.x), center.y, center.z).
update_camera_for_frame(cam, world) ==
    [cam EXCEPT !.location = <<0 - Abs(cam.location[1]), 200 * world[1][2],
                               200 * world[1][3]>>]

\* The scenes, arguments and start of one job through the scripts.
ScriptInit ==
    /\ spc = "count"
    /\ scene \in {[frame_start |-> fs, frame_end |-> fs + n - 1, fps |-> sf,
                   bones |-> b] :
                     fs \in FrameStarts, n \in 1..MaxFrames,
                     sf \in ScriptSceneFps, b \in TargetArmatures}
    /\ script_args \in [fps : ScriptFps]
    /\ ScriptStart

\* worker.py 16-20 with count_frames.py: the count is printed and read back,
\* a count of 0 is an error and nothing is rendered.  Otherwise render.py
\* starts: render_sequence enters the sampling loop at frame_start.
CountFramesScript ==
    /\ spc = "count"
    /\ LET n == CountFrames(scene.frame_end - scene.frame_start + 1,
                            scene.fps, script_args.fps)
       IN  /\ total_frames_to_render' = n
           /\ spc' = IF AfterCount(n, FALSE) = "render" THEN "bbox" ELSE "result"
    /\ frame' = scene.frame_start
    /\ UNCHANGED <<poolVars, stickVars, pixelVars, retargetVars, scene, script_args, frame_poses,
                   global_bounds, cam_obj, frames_written, poses, job_result,
                   stick_written>>

\* One iteration of `for frame in range(frame_start, frame_end + 1,
\* frame_step)`: frame_set and _retarget_armature put the target bones where
\* the animation has them at this frame, then the frame's box is merged into
\* the global bounds and the pose is stored.
BboxFrame ==
    /\ spc = "bbox"
    /\ \E world \in [1..Len(scene.bones) -> Points] :
         /\ global_bounds' = UpdateGlobalBounds(global_bounds,
                                  calculate_bbox_for_frame(world))
         /\ frame_poses' = Append(frame_poses, [frame |-> frame, pose |-> world])
    /\ frame' = frame + frame_step(script_args.fps)
    /\ spc' = IF frame' > scene.frame_end THEN "camera" ELSE "bbox"
    /\ UNCHANGED <<poolVars, stickVars, pixelVars, retargetVars, scene, script_args,
                   total_frames_to_render, cam_obj, frames_written, poses,
                   job_result, stick_written>>

\* _position_camera_for_sprite_sheet(camera, global_bbox, render_padding)
PositionCamera ==
    /\ spc = "camera"
    /\ cam_obj' = position_camera_for_sprite_sheet(cam_obj,
                                                   GlobalBBox(global_bounds))
    /\ spc' = "render"
    /\ UNCHANGED <<poolVars, stickVars, pixelVars, retargetVars, scene, script_args,
                   total_frames_to_render, frame, frame_poses, global_bounds,
                   frames_written, poses, job_result, stick_written>>

\* str(n) for n >= 0, as the list of its characters.
RECURSIVE Decimal(_)
Decimal(n) ==
    LET d == <<"0", "1", "2", "3", "4", "5", "6", "7", "8", "9">>[(n % 10) + 1]
    IN  IF n < 10 THEN <<d>> ELSE Append(Decimal(n \div 10), d)

\* Zeros put before the characters cs to reach `width` characters.
RECURSIVE ZeroFill(_, _)
ZeroFill(cs, width) ==
    IF Len(cs) >= width THEN cs ELSE ZeroFill(<<"0">> \o cs, width)

\* The frame number written without padding.
Format04d_Unpadded(n) ==
    IF n < 0 THEN <<"-">> \o Decimal(0 - n) ELSE Decimal(n)

\* f'{n:04d}': at least four characters, the sign first, zeros after it.
Format04d(n) ==
    IF n < 0 THEN <<"-">> \o ZeroFill(Decimal(0 - n), 3)
    ELSE ZeroFill(Decimal(n), 4)

\* One iteration of `for frame_data in frame_poses`: frame_set and
\* _retarget_armature evaluate the same animation at the same frame as the
\* sampling loop did, the camera follows, the frame is written to
\* f'{frame:04d}.png'.
RenderFrame ==
    /\ spc = "render"
    /\ LET frame_data == frame_poses[Len(poses) + 1]
           cam == update_camera_for_frame(cam_obj, frame_data.pose)
       IN  /\ cam_obj' = cam
           /\ frames_written' = Append(frames_written,
                  [frame |-> frame_data.frame, ortho_scale |-> cam.ortho_scale,
                   location |-> cam.location,
                   file |-> Format04d(frame_data.frame)])
           /\ poses' = Append(poses, frame_data)
    /\ spc' = IF Len(poses) + 1 = Len(frame_poses) THEN "stick" ELSE "render"
    /\ UNCHANGED <<poolVars, stickVars, pixelVars, retargetVars, scene, script_args,
                   total_frames_to_render, frame, frame_poses, global_bounds,
                   job_result, stick_written>>

\* render_stick_poses numbering the images 1, 2, 3, ... in list order.
StickPose_Sequential ==
    /\ spc = "stick"
    /\ LET frame_data == poses[Len(stick_written) + 1]
       IN  stick_written' = Append(stick_written,
               [frame |-> frame_data.frame,
                file |-> Format04d(Len(stick_written) + 1)])
    /\ spc' = IF Len(stick_written) + 1 = Len(poses) THEN "result" ELSE "stick"
    /\ UNCHANGED <<poolVars, stickVars, pixelVars, retargetVars, scene, script_args,
                   total_frames_to_render, frame, frame_poses, global_bounds,
                   cam_obj, frames_written, poses, job_result>>

\* render_stick_poses, one iteration of `for frame_data in
\* poses_data.get("frames", [])` over the frames write_poses_json stored:
\* the stick image of the pose is saved to f"{frame_num:04d}.png".
StickPose ==
    /\ spc = "stick"
    /\ LET frame_data == poses[Len(stick_written) + 1]
       IN  stick_written' = Append(stick_written,
               [frame |-> frame_data.frame, file |-> Format04d(frame_data.frame)])
    /\ spc' = IF Len(stick_written) + 1 = Len(poses) THEN "result" ELSE "stick"
    /\ UNCHANGED <<poolVars, stickVars, pixelVars, retargetVars, scene, script_args,
                   total_frames_to_render, frame, frame_poses, global_bounds,
                   cam_obj, frames_written, poses, job_result>>

\* worker.py 41-43: RenderJobResult(job, frames_to_render, error,
\* error_message) for a job whose scripts did not raise.
JobResult ==
    /\ spc = "result"
    /\ job_result' = [frames_rendered |-> total_frames_to_render,
                      error |-> total_frames_to_render = 0,
                      error_message |-> IF total_frames_to_render = 0
                                        THEN "0 frames to render" ELSE ""]
    /\ spc' = "done"
    /\ UNCHANGED <<poolVars, stickVars, pixelVars, retargetVars, scene, script_args,
                   total_frames_to_render, frame, frame_poses, global_bounds,
                   cam_obj, frames_written, poses, stick_written>>

(* ------------------------- pose.py: stick figure ----------------------- *)
JOINT_SUFFIXES ==
    {"Hips", "Spine", "Spine1", "Spine2", "Neck", "Head",
     "LeftShoulder", "LeftArm", "LeftForeArm", "LeftHand",
     "LeftUpLeg", "LeftLeg", "LeftFoot", "LeftToeBase",
     "RightShoulder", "RightArm", "RightForeArm", "RightHand",
     "RightUpLeg", "RightLeg", "RightFoot", "RightToeBase"}

BONE_CONNECTION_SUFFIXES ==
    << <<"Spine", "Hips">>, <<"Spine1", "Spine">>, <<"Spine2", "Spine1">>,
       <<"Neck", "Spine2">>, <<"Head", "Neck">>,
       <<"LeftShoulder", "Spine2">>, <<"LeftArm", "LeftShoulder">>,
       <<"LeftForeArm", "LeftArm">>, <<"LeftHand", "LeftForeArm">>,
       <<"RightShoulder", "Spine2">>, <<"RightArm", "RightShoulder">>,
       <<"RightForeArm", "RightArm">>, <<"RightHand", "RightForeArm">>,
       <<"LeftUpLeg", "Hips">>, <<"LeftLeg", "LeftUpLeg">>,
       <<"LeftFoot", "LeftLeg">>, <<"LeftToeBase", "LeftFoot">>,
       <<"RightUpLeg", "Hips">>, <<"RightLeg", "RightUpLeg">>,
       <<"RightFoot", "RightLeg">>, <<"RightToeBase", "RightFoot">> >>

\* BODY_PART_MAPPING.get(suffix, "torso")
BODY_PART_MAPPING(suffix) ==
    IF suffix \in {"LeftUpLeg", "LeftLeg", "LeftFoot", "LeftToeBase"}
    THEN "left_leg"
    ELSE IF suffix \in {"RightUpLeg", "RightLeg", "RightFoot", "RightToeBase"}
    THEN "right_leg"
    ELSE IF suffix \in {"LeftShoulder", "LeftArm", "LeftForeArm", "LeftHand"}
    THEN "left_arm"
    ELSE IF suffix \in {"RightShoulder", "RightArm", "RightForeArm", "RightHand"}
    THEN "right_arm"
    ELSE IF suffix \in {"Neck", "Head"}
    THEN "head"
    ELSE "torso"

BODY_PART_COLORS ==
    [left_leg |-> <<255, 0, 0>>, right_leg |-> <<0, 255, 0>>,
     left_arm |-> <<0, 0, 255>>, right_arm |-> <<255, 255, 0>>,
     torso |-> <<255, 0, 255>>, head |-> <<0, 255, 255>>]

JOINT_COLORS ==
    [left_leg |-> <<255, 128, 128>>, right_leg |-> <<128, 255, 128>>,
     left_arm |-> <<128, 128, 255>>, right_arm |-> <<255, 255, 128>>,
     torso |-> <<255, 128, 255>>, head |-> <<128, 255, 255>>]

joint_color(suffix) == JOINT_COLORS[BODY_PART_MAPPING(suffix)]
\* bone_color giving every bone the default colour.
bone_color_Default(suffix) == BODY_PART_COLORS["torso"]

bone_color(suffix) == BODY_PART_COLORS[BODY_PART_MAPPING(suffix)]

\* A joint name "<prefix>:<suffix>" and the entry of a pose dict under it.
Name(prefix, suffix) == [prefix |-> prefix, suffix |-> suffix]
Joint(prefix, suffix, loc) == [name |-> Name(prefix, suffix), location |-> loc]
NoName == Name("", "")

\* name.endswith(f":{suffix}"): the part after the colon is the suffix.
EndsWith(name, suffix) == name.suffix = suffix

\* find_joint_by_suffix: the first key of the pose, in dict order, that ends
\* with ":" + suffix; None when there is none.
find_joint_by_suffix(pose, suffix) ==
    LET hits == {i \in 1..Len(pose) : EndsWith(pose[i].name, suffix)}
    IN  IF hits = {} THEN NoName ELSE pose[SetMin(hits)].name

\* The canonical suffixes some joint of the pose matches.
Matched(pose) ==
    {sfx \in JOINT_SUFFIXES : find_joint_by_suffix(pose, sfx) # NoName}

\* The orders in which iterating a Python set can deliver the elements of S.
Orders(S) ==
    {q \in [1..Cardinality(S) -> S] :
        \A i, k \in 1..Cardinality(S) : i # k => q[i] # q[k]}

\* A quotient n/d of floats kept exact, d > 0.
Ratio(n, d) == [n |-> n, d |-> d]
\* max(x, 1e-5) for an integer x >= 0.
AtLeastEps(x) == IF x > 0 THEN Ratio(x, 1) ELSE Ratio(1, 100000)
\* min(a, b) of two quotients.
RatioMin(a, b) == IF b.n * a.d < a.n * b.d THEN b ELSE a

\* to_img with the horizontal offset taken from the left padding.
to_img_LeftAligned(loc, hips_y2, scale, min_z, width, height) ==
    [u |-> PyRound((hips_y2 - 2 * loc[2]) * scale.n + 2 * padding * scale.d,
                   2 * scale.d),
     v |-> PyRound(height * scale.d - (loc[3] - min_z) * scale.n
                   - padding * scale.d, scale.d)]

\* to_img inside project_points_yz; hips_y2 is hips_y doubled:
\* u = (hips_y - y) * scale + width / 2.0,
\* v = height - ((z - min_z) * scale + padding), both int(round(.)).
to_img(loc, hips_y2, scale, min_z, width, height) ==
    [u |-> PyRound((hips_y2 - 2 * loc[2]) * scale.n + width * scale.d,
                   2 * scale.d),
     v |-> PyRound(height * scale.d - (loc[3] - min_z) * scale.n
                   - padding * scale.d, scale.d)]

\* project_points_yz(joint_to_loc, width, height, padding); joint_to_loc is
\* the list of the dict's items.  The hips are looked up under the name
\* "mixamorig1:Hips".
project_points_yz(joint_to_loc, width, height) ==
    IF joint_to_loc = <<>> THEN <<>>
    ELSE
    LET idx == 1..Len(joint_to_loc)
        ys == {joint_to_loc[i].location[2] : i \in idx}
        zs == {joint_to_loc[i].location[3] : i \in idx}
        min_z == SetMin(zs)
        max_z == SetMax(zs)
        hips == {i \in idx : joint_to_loc[i].name = Name("mixamorig1", "Hips")}
        hips_y2 == IF hips # {}
                   THEN 2 * joint_to_loc[CHOOSE i \in hips : TRUE].location[2]
                   ELSE SetMin(ys) + SetMax(ys)
        span_y_sym == AtLeastEps(SetMax({Abs(2 * y - hips_y2) : y \in ys}))
        span_z == AtLeastEps(max_z - min_z)
        scale_x == Ratio((width - 2 * padding) * span_y_sym.d, span_y_sym.n)
        scale_y == Ratio((height - 2 * padding) * span_z.d, span_z.n)
        scale == RatioMin(scale_x, scale_y)
    IN  [i \in idx |->
            [name |-> joint_to_loc[i].name,
             uv |-> to_img(joint_to_loc[i].location, hips_y2, scale, min_z,
                           width, height)]]

\* render_stick_image(img_w, img_h, pose); order is the order in which
\* `for suffix in JOINT_SUFFIXES` delivers the matched suffixes.  Every
\* entry of a pose written by render.py has a location of three numbers.
render_stick_image(img_w, img_h, pose, order) ==
    LET suffix_to_name == [i \in 1..Len(order) |->
                              [suffix |-> order[i],
                               name |-> find_joint_by_suffix(pose, order[i])]]
        LocOf(name) == pose[CHOOSE i \in 1..Len(pose) : pose[i].name = name].location
        joint_to_loc == [i \in 1..Len(order) |->
                            [name |-> suffix_to_name[i].name,
                             location |-> LocOf(suffix_to_name[i].name)]]
        points == project_points_yz(joint_to_loc, img_w, img_h)
        PointOf(sfx) == points[CHOOSE i \in 1..Len(order) : order[i] = sfx].uv
        have == {order[i] : i \in 1..Len(order)}
        bones == SelectSeq(BONE_CONNECTION_SUFFIXES,
                           LAMBDA c : c[1] \in have /\ c[2] \in have)
    IN  [drawn |-> TRUE,
         lines |-> [i \in 1..Len(bones) |->
                      [p0 |-> PointOf(bones[i][1]), p1 |-> PointOf(bones[i][2]),
                       fill |-> bone_color(bones[i][1]), width |-> line_width]],
         ellipses |-> [i \in 1..Len(points) |->
                         [u |-> points[i].uv.u, v |-> points[i].uv.v,
                          fill |-> joint_color(points[i].name.suffix)]]]

\* The PoseFrames given to render_stick_image: up to MaxJoints joints of
\* one armature, each at one of the points.
PoseFrames ==
    UNION {{[i \in 1..n |-> Joint(pre, JointUniverse[q[i]], l[i])] :
               l \in [1..n -> Points], pre \in Prefixes,
               q \in {f \in [1..n -> 1..Len(JointUniverse)] :
                        \A i \in 1..(n - 1) : f[i] < f[i + 1]}} :
           n \in 0..MaxJoints}

\* The canonical suffixes that occur in the PoseFrames.
UniverseSuffixes ==
    {JointUniverse[i] : i \in 1..Len(JointUniverse)} \cap JOINT_SUFFIXES

\* order with the elements outside S dropped.
Restrict(order, S) == SelectSeq(order, LAMBDA x : x \in S)

\* JOINT_SUFFIXES is a set of str: the order its iteration delivers follows
\* the hashes of the strings, which every Python process salts with a seed
\* of its own unless it was forked from a process that had one.  Worker
\* processes are started with the platform's default start method
\* (mp.Process, no set_start_method): forked workers share the order,
\* spawned ones each have their own.
StickStart ==
    /\ stick_in \in {[img_w |-> r, img_h |-> r, pose |-> p] :
                        r \in Resolutions, p \in PoseFrames}
    /\ stick_img = NoImage
    /\ hash_order \in [Processes -> Orders(UniverseSuffixes)]
    /\ stick_img2 = [proc |-> 0, img |-> NoImage]

\* stick_img = render_stick_image(img_w, img_h, pose)
RenderStickImage ==
    /\ ~stick_img.drawn
    /\ stick_in.img_w > 0
    /\ stick_img' = render_stick_image(stick_in.img_w, stick_in.img_h,
             stick_in.pose, Restrict(hash_order[1], Matched(stick_in.pose)))
    /\ UNCHANGED <<poolVars, scriptVars, pixelVars, retargetVars, stick_in, hash_order, stick_img2>>

\* A second call render_stick_image(img_w, img_h, pose) with the same
\* arguments, in the same process or in another worker process.
RenderStickImageAgain ==
    /\ stick_img.drawn
    /\ ~stick_img2.img.drawn
    /\ \E p \in Processes :
         stick_img2' =
            [proc |-> p,
             img |-> render_stick_image(stick_in.img_w, stick_in.img_h,
                        stick_in.pose,
                        Restrict(hash_order[p], Matched(stick_in.pose)))]
    /\ UNCHANGED <<poolVars, scriptVars, pixelVars, retargetVars, stick_in, stick_img, hash_order>>

(* --------------------------- pixelize_frames --------------------------- *)
\* The frames pixelize_frames opens: every size up to MaxSide, each pixel of
\* its own colour (the colour of pixel (x, y) is <<x, y>>), so that the
\* colour of an output pixel tells which input pixel it was taken from.
Frames ==
    {Image(w, h, [c \in Coords(w, h) |-> c]) : w \in 1..MaxSide, h \in 1..MaxSide}
PixelSizes == 1..MaxSide

\* Image.NEAREST: the output pixel x takes the input pixel under its centre,
\* floor((x + 0.5) * in_size / out_size).
NearestSource(x, in_size, out_size) ==
    ((2 * x + 1) * in_size) \div (2 * out_size)

\* img.resize(size, resample=Image.NEAREST); a size with a zero side raises
\* ValueError("height and width must be > 0"); the result is the exception
\* raised ("" when none) and the image.
resize(img, width, height) ==
    IF width < 1 \/ height < 1
    THEN [raised |-> "ValueError", img |-> Image(0, 0, <<>>)]
    ELSE [raised |-> "",
          img |-> Image(width, height,
               [c \in Coords(width, height) |->
                   img.px[<<NearestSource(c[1], img.size[1], width),
                            NearestSource(c[2], img.size[2], height)>>]])]

PixelStart ==
    /\ frame_image \in {[img |-> f, pixel_size |-> k] :
                            f \in Frames, k \in PixelSizes}
    /\ pixels = NoPixels

\* pixelize_frames saving the reduced image, not resized back.
PixelizeFrame_SmallSaved ==
    /\ ~pixels.saved
    /\ pixels.raised = ""
    /\ frame_image.img.size[1] > 0
    /\ LET width == frame_image.img.size[1]
           height == frame_image.img.size[2]
           small == resize(frame_image.img,
                           width \div frame_image.pixel_size,
                           height \div frame_image.pixel_size)
       IN  pixels' =
             IF small.raised # ""
             THEN [saved |-> FALSE, raised |-> small.raised,
                   img |-> Image(0, 0, <<>>)]
             ELSE [saved |-> TRUE, raised |-> "",
                   img |-> small.img]
    /\ UNCHANGED <<poolVars, scriptVars, stickVars, retargetVars, frame_image>>

\* One pass of the loop of pixelize_frames: down to (width // pixel_size,
\* height // pixel_size), back up to (width, height), saved.
PixelizeFrame ==
    /\ ~pixels.saved
    /\ pixels.raised = ""
    /\ frame_image.img.size[1] > 0
    /\ LET width == frame_image.img.size[1]
           height == frame_image.img.size[2]
           small == resize(frame_image.img,
                           width \div frame_image.pixel_size,
                           height \div frame_image.pixel_size)
       IN  pixels' =
             IF small.raised # ""
             THEN [saved |-> FALSE, raised |-> small.raised,
                   img |-> Image(0, 0, <<>>)]
             ELSE [saved |-> TRUE, raised |-> "",
                   img |-> resize(small.img, width, height).img]
    /\ UNCHANGED <<poolVars, scriptVars, stickVars, retargetVars, frame_image>>

(* -------------------------- _retarget_armature ------------------------- *)
\* A pose bone: its name and its local location, rotation_quaternion and
\* scale; keyed tells that keyframes were inserted for it at the frame.
PoseBone(name, location, rotation_quaternion, scale, keyed) ==
    [name |-> name, location |-> location,
     rotation_quaternion |-> rotation_quaternion, scale |-> scale,
     keyed |-> keyed]

\* The transforms a source bone can have at the frame, and the transform
\* the target bones have before the call.
SourceTransforms == {1, 2}
TargetTransform == 0

\* The bones of an armature: up to MaxJoints names of JointUniverse under
\* one prefix, in the order of pose.bones.
BoneNames ==
    UNION {{[i \in 1..n |-> Name(pre, JointUniverse[q[i]])] :
               pre \in Prefixes,
               q \in {f \in [1..n -> 1..Len(JointUniverse)] :
                        \A i \in 1..(n - 1) : f[i] < f[i + 1]}} :
           n \in 1..MaxJoints}

\* _get_armature_bone_prefix: bones[0].name.split(':')[0]
get_armature_bone_prefix(arm) == arm[1].name.prefix

\* _get_bone_suffix: bone.name.split(':')[1]
get_bone_suffix(bone) == bone.name.suffix

\* _retarget_armature copying location and rotation only.
retarget_armature_NoScale(source, target) ==
    LET source_prefix == get_armature_bone_prefix(source)
        Found(name) == {k \in 1..Len(source) : source[k].name = name}
    IN  [i \in 1..Len(target) |->
            LET source_bone_name == Name(source_prefix, get_bone_suffix(target[i]))
            IN  IF Found(source_bone_name) = {} THEN target[i]
                ELSE LET source_bone == source[CHOOSE k \in Found(source_bone_name) : TRUE]
                     IN  PoseBone(target[i].name, source_bone.location,
                                  source_bone.rotation_quaternion,
                                  target[i].scale, TRUE)]

\* _retarget_armature(frame, source_arm, target_arm): the pose bones of the
\* target after the loop.  source_arm.pose.bones[name] raises KeyError for
\* a name the source has not, and the loop continues.
retarget_armature(source, target) ==
    LET source_prefix == get_armature_bone_prefix(source)
        Found(name) == {k \in 1..Len(source) : source[k].name = name}
    IN  [i \in 1..Len(target) |->
            LET source_bone_name == Name(source_prefix, get_bone_suffix(target[i]))
            IN  IF Found(source_bone_name) = {} THEN target[i]
                ELSE LET source_bone == source[CHOOSE k \in Found(source_bone_name) : TRUE]
                     IN  PoseBone(target[i].name, source_bone.location,
                                  source_bone.rotation_quaternion,
                                  source_bone.scale, TRUE)]

RetargetStart ==
    /\ source_arm \in
          UNION {{[i \in 1..Len(names) |->
                      PoseBone(names[i], t[i], t[i], t[i], FALSE)] :
                    t \in [1..Len(names) -> SourceTransforms]} :
                 names \in BoneNames}
    /\ target_arm \in
          {[i \in 1..Len(names) |->
               PoseBone(names[i], TargetTransform, TargetTransform,
                        TargetTransform, FALSE)] : names \in BoneNames}
    /\ retargeted = NotRetargeted

\* _retarget_armature(frame, source_arm, target_arm)
RetargetArmature ==
    /\ ~retargeted.done
    /\ source_arm # <<>>
    /\ retargeted' = [done |-> TRUE, raised |-> "",
                      bones |-> retarget_armature(source_arm, target_arm)]
    /\ UNCHANGED <<poolVars, scriptVars, stickVars, pixelVars, source_arm,
                   target_arm>>

(* --------------------------- specification ----------------------------- *)
MainStep ==
    \/ SpawnWorker
    \/ CreateJobs
    \/ PutJob
    \/ CollectResult
    \/ PutPill
    \/ JoinWorker
    \/ PurgeCopy
    \/ PurgeRemove
    \/ PurgeReturn
    \/ DisplayResults

WorkerStep(w) ==
    \/ GetJob(w)
    \/ CountJobFrames(w)
    \/ TryRender(w)
    \/ PutResult(w)

Next ==
    \/ MainStep
    \/ \E w \in Workers : WorkerStep(w)

Spec == Init /\ [][Next]_vars

\* One job followed through count_frames.py, render.py and the result.
JobInit == PoolIdle /\ ScriptInit /\ StickIdle /\ PixelIdle /\ RetargetIdle

JobNext ==
    \/ CountFramesScript
    \/ BboxFrame
    \/ PositionCamera
    \/ RenderFrame
    \/ StickPose
    \/ JobResult

JobSpec == JobInit /\ [][JobNext]_vars

\* One call of render_stick_image.
StickInit == PoolIdle /\ ScriptIdle /\ StickStart /\ PixelIdle /\ RetargetIdle

StickNext ==
    \/ RenderStickImage
    \/ RenderStickImageAgain

StickSpec == StickInit /\ [][StickNext]_vars

\* One frame through pixelize_frames.
PixelInit == PoolIdle /\ ScriptIdle /\ StickIdle /\ PixelStart /\ RetargetIdle

PixelNext == PixelizeFrame

PixelSpec == PixelInit /\ [][PixelNext]_vars

\* One call of _retarget_armature.
RetargetInit ==
    PoolIdle /\ ScriptIdle /\ StickIdle /\ PixelIdle /\ RetargetStart

RetargetNext == RetargetArmature

RetargetSpec == RetargetInit /\ [][RetargetNext]_vars

(* ------------------------------ claims --------------------------------- *)
\* Every result a worker has pushed: those main has collected and those
\* still on result_queue.
Pushed == {results[i] : i \in 1..Len(results)} \cup
          {result_queue[i] : i \in 1..Len(result_queue)}

ResultsOf(j) == {i \in 1..Len(results) : Id(results[i].job) = j} 

\* Worker w has popped a job and not yet pushed its result.
Holding(w) == wpc[w] \in {"count", "render", "put"}

MissingDir == ~source_dir.exists \/ ~target_dir.exists

\* main is past its collect loop.
PastCollect ==
    \/ mainpc \in {"kill", "join", "purge", "display", "done"}
    \/ raised = "OSError"

\* main has received exactly one result for each job it submitted.
AllReceived ==
    /\ Len(results) = Len(jobs)
    /\ \A k \in 1..Len(jobs) : Cardinality(ResultsOf(Id(jobs[k]))) = 1

\* C1: once main has put its J jobs on the queue, with 1 <= N <= J workers,
\* it receives exactly J results, one for each job, whatever the outcome of
\* each job: while it waits for results some process can still take a step,
\* no job is pushed twice, and past the collect loop it holds one result for
\* each job.
C1_EveryJobYieldsOneResult ==
    /\ (mainpc = "collect" /\ args.num_workers <= Len(jobs)) => ENABLED Next
    /\ \A j \in JobIds : log[j].pushed <= 1
    /\ PastCollect => AllReceived

\* C2: a failing frame-count query never leaves the worker loop: no worker
\* process ends by an exception, and the job whose query failed gets one
\* result with error = true.
C2_CountFailureBecomesErrorResult ==
    /\ \A w \in Workers : wpc[w] # "raised"
    /\ \A j \in JobIds :
         log[j].raised = "count" =>
           /\ log[j].pushed = 1
           /\ \A r \in Pushed : Id(r.job) = j => r.error

\* The calls made for a job whose try block raised at `cause`: the calls
\* before the raising one and the raising one, none after it.
CallsUpTo(j, cause) ==
    /\ log[j].render = 1
    /\ log[j].stick = (IF cause = "render" THEN 0 ELSE 1)
    /\ log[j].pixelize = (IF cause = "pixelize" THEN 1 ELSE 0)

TryCauses == {"render", "stick", "pixel_size", "pixelize"}

\* C3: when the render, the stick-figure or the pixelation step of a job
\* raises, the steps after it are not run for that job, the worker holds
\* error = true with a non-empty message and pushes exactly one result saying
\* so, and from the push it goes back to the get of the next queue item.
C3_TryBlockFailureBecomesErrorResult ==
    /\ [](\A j \in JobIds :
            log[j].raised \in TryCauses =>
              /\ CallsUpTo(j, log[j].raised)
              /\ \A w \in Workers :
                   (Holding(w) /\ Id(job[w]) = j) =>
                     /\ wpc[w] = "put" /\ error[w] /\ error_message[w] # ""
                     /\ log[j].pushed = 0
              /\ (\A w \in Workers : ~(Holding(w) /\ Id(job[w]) = j)) =>
                     /\ log[j].pushed = 1
                     /\ Cardinality({r \in Pushed : Id(r.job) = j}) = 1
              /\ \A r \in Pushed :
                   Id(r.job) = j => r.error /\ r.error_message # "")
    /\ [][\A w \in Workers :
            (wpc[w] = "put" /\ wpc'[w] # "put") =>
              /\ wpc'[w] = "get"
              /\ result_queue' = Append(result_queue,
                     RenderJobResult(job[w], frames_to_render[w], error[w],
                                     error_message[w]))]_vars

\* One worker: the first job raised in its render, its error result was
\* pushed, and the same worker has pushed the result of the next job.
C3_Witness ==
    /\ args.num_workers = 1
    /\ Len(jobs) = 2
    /\ log[Id(jobs[1])].raised = "render"
    /\ log[Id(jobs[1])].pushed = 1
    /\ log[Id(jobs[2])].pushed = 1

\* What is left to do once the results are collected: sentinels to put,
\* workers to leave their loop, workers to join.
Rank ==
    (args.num_workers - pills)
    + Cardinality({w \in 1..args.num_workers : wpc[w] # "exited"})
    + (args.num_workers - joined)

\* C4: once main has collected all results it puts N sentinels, every worker
\* leaves its loop and the join of all workers completes, for any number of
\* jobs, zero and fewer than N included: until main is done some process can
\* take a step, every step brings the end nearer, and at the end N sentinels
\* were put, N workers joined and every worker has left its loop.
C4_PoolTerminates ==
    /\ [](mainpc \in {"kill", "join"} => ENABLED Next)
    /\ [](mainpc \in {"join", "done"} => pills = args.num_workers)
    /\ [](mainpc = "done" =>
            /\ joined = args.num_workers
            /\ \A w \in 1..args.num_workers : wpc[w] = "exited")
    /\ [][(mainpc \in {"kill", "join"}) => (Rank' < Rank)]_vars

\* More workers than jobs, one job, and the pool has terminated.
C4_Witness ==
    /\ mainpc = "done"
    /\ Len(jobs) = 1
    /\ args.num_workers > Len(jobs)
    /\ \A w \in 1..args.num_workers : wpc[w] = "exited"

\* C5: no job is popped twice, two workers never hold the same job, at most
\* N jobs are in progress, and a worker reaches its get only from its start
\* or from the push of the result of the job it held.
C5_OneJobPerWorker ==
    /\ [](/\ \A j \in JobIds : log[j].popped <= 1
          /\ \A w1, w2 \in Workers :
               (w1 # w2 /\ Holding(w1) /\ Holding(w2)) => job[w1] # job[w2]
          /\ \A w \in Workers : Holding(w) => job[w] # None
          /\ Cardinality({w \in Workers : Holding(w)}) <= args.num_workers)
    /\ [][\A w \in Workers :
            (wpc[w] # "get" /\ wpc'[w] = "get") =>
              \/ wpc[w] = "unstarted"
              \/ /\ wpc[w] = "put"
                 /\ log'[Id(job[w])].pushed = log[Id(job[w])].pushed + 1]_vars

\* Two workers hold two different jobs at the same moment.
C5_Witness ==
    \E w1, w2 \in Workers :
        /\ w1 # w2
        /\ Holding(w1) /\ Holding(w2)
        /\ job[w1] # job[w2]

\* The frame-count query of job j returned 0.
ZeroFrames(j) == log[j].count = 1 /\ log[j].raised # "count" /\ log[j].estimate = 0

\* C6: a job whose frame count is 0 gets error = true and the message
\* "0 frames to render", and neither the renderer, the stick-figure
\* projection nor the pixelation is invoked for it, in either mode.
C6_ZeroFramesIsErrorWithoutRender ==
    \A j \in JobIds :
        ZeroFrames(j) =>
          /\ log[j].render = 0 /\ log[j].stick = 0 /\ log[j].pixelize = 0
          /\ \A w \in Workers :
               (Holding(w) /\ Id(job[w]) = j /\ wpc[w] # "count") =>
                 /\ wpc[w] = "put"
                 /\ error[w]
                 /\ error_message[w] = "0 frames to render"
          /\ \A r \in Pushed :
               Id(r.job) = j =>
                 /\ r.error
                 /\ r.error_message = "0 frames to render"
                 /\ r.frames_rendered = 0

\* Normal mode: a job counted 0 frames and its result has been pushed.
C6_Witness ==
    /\ ~args.count_only
    /\ \E j \in JobIds : ZeroFrames(j) /\ log[j].pushed = 1

\* C7: in count_only mode no job is rendered, drawn or pixelized, no job is
\* counted twice, a job whose query printed a count goes straight to the push
\* of its one result, every result carries the count its query printed, and
\* once main has collected all results every job has had exactly one query
\* and has exactly one result.
C7_CountOnlyNeverRenders ==
    args.count_only =>
      /\ \A j \in JobIds :
           /\ log[j].count <= 1
           /\ log[j].render = 0 /\ log[j].stick = 0 /\ log[j].pixelize = 0
           /\ log[j].pushed <= 1
           /\ (log[j].count = 1 /\ log[j].raised # "count") =>
                \/ log[j].pushed = 1
                \/ \E w \in Workers :
                     /\ wpc[w] = "put" /\ Id(job[w]) = j
                     /\ frames_to_render[w] = log[j].estimate
      /\ \A r \in Pushed :
           /\ log[Id(r.job)].count = 1
           /\ r.frames_rendered = log[Id(r.job)].estimate
      /\ PastCollect =>
           /\ AllReceived
           /\ \A k \in 1..Len(jobs) : log[Id(jobs[k])].count = 1

\* count_only, two jobs, both results collected, one of them without error.
C7_Witness ==
    /\ args.count_only
    /\ mainpc = "done"
    /\ Len(results) = 2
    /\ \E i \in 1..Len(results) :
         ~results[i].error /\ results[i].frames_rendered # 0

\* C8: every result pushed has error = true, or has error = false with
\* frames_rendered >= 1 and an empty message.
C8_ResultIsCompleteOrFailed ==
    \A r \in Pushed :
        \/ r.error
        \/ (~r.error /\ r.frames_rendered >= 1 /\ r.error_message = "")

\* C9: with the source or the target directory missing, job enumeration fails
\* with the not-found error, nothing is ever put on the job queue, no job is
\* processed and no result exists.
C9_MissingDirRaisesBeforeAnyJob ==
    (entry = "cli" /\ MissingDir) =>
      /\ mainpc \in {"spawn", "create", "raised"}
      /\ mainpc = "raised" => raised = "FileNotFoundError"
      /\ jobs = <<>>
      /\ job_queue = <<>>
      /\ result_queue = <<>> /\ results = <<>>
      /\ \A j \in JobIds : log[j] = NoLog
      /\ \A w \in Workers : ~Holding(w)

\* The source directory exists, the target directory does not, and
\* enumeration has raised.
C9_Witness ==
    /\ entry = "cli"
    /\ source_dir.exists /\ ~target_dir.exists
    /\ mainpc = "raised"
    /\ raised = "FileNotFoundError"

\* C10: when setup fails on a missing directory the program terminates with
\* a non-zero exit and every worker that was started ends as well: after the
\* exception the program has exited with status 1, or some process can still
\* take a step towards it.
C10_SetupFailureTerminates ==
    (entry = "cli" /\ MissingDir /\ mainpc = "raised") =>
        \/ ProgramExited /\ ExitStatus = 1
        \/ ENABLED Next

\* C11: with both directories present, S source files and T target files,
\* job enumeration yields exactly S*T jobs: each (target, source) pair once,
\* none missing.
C11_EnumerationIsCartesianProduct ==
    (entry = "cli" /\ ~MissingDir /\ mainpc \notin {"spawn", "create"}) =>
        /\ Len(jobs) = source_dir.files * target_dir.files
        /\ \A t \in 1..target_dir.files, s \in 1..source_dir.files :
             Cardinality({k \in 1..Len(jobs) : Id(jobs[k]) = <<t, s>>}) = 1

\* Sources named by a collected result with error = true.
FailingSources ==
    {results[k].job.source : k \in {i \in 1..Len(results) : results[i].error}}

\* _purge_errors has returned.
PurgeOver == args.purge_errors /\ mainpc \in {"display", "done"}

\* C12: with purging enabled, copy2 and os.remove are each called at most
\* once per source file, a source no failing result names is never touched,
\* and when the purge pass has returned every failing source has been
\* copied and removed once and the count equals the number of distinct
\* failing sources.
C12_PurgeRelocatesEachFailingSourceOnce ==
    /\ \A s \in 1..MaxJobs :
         /\ files[s].copy2 <= 1
         /\ files[s].remove <= 1
         /\ s \notin FailingSources =>
              files[s] = [original |-> s <= source_dir.files, copy |-> FALSE,
                          copy2 |-> 0, remove |-> 0]
    /\ PurgeOver =>
         /\ purge.count = Cardinality(FailingSources)
         /\ \A s \in FailingSources :
              files[s] = [original |-> FALSE, copy |-> TRUE,
                          copy2 |-> 1, remove |-> 1]

\* The purge pass has returned after two failing results named the same
\* source.
C12_Witness ==
    /\ PurgeOver
    /\ purge.count = 1
    /\ \E i, k \in 1..Len(results) :
         /\ i # k
         /\ results[i].error /\ results[k].error
         /\ results[i].job.source = results[k].job.source

\* C13: a filesystem error on one file during the purge does not abort the
\* run: after a copy2 or an os.remove that raised, main has not been left
\* by an exception.
C13_PurgeSurvivesFileError ==
    \A s \in 1..MaxJobs :
        \/ files[s].copy2 > 0 /\ ~files[s].copy
        \/ files[s].remove > 0 /\ files[s].original
        => mainpc # "raised"

\* C14: the purge pass runs only after every result has been collected:
\* whenever main is in the pass, or a source has been copied or removed,
\* main holds one result per job, no result is in flight and no worker
\* holds a job.
C14_PurgeAfterAllResults ==
    (mainpc = "purge" \/ \E s \in 1..MaxJobs :
                            files[s].copy2 > 0 \/ files[s].remove > 0) =>
        /\ AllReceived
        /\ result_queue = <<>>
        /\ \A w \in Workers : ~Holding(w)

\* A source has been removed in a run with two workers and two jobs.
C14_Witness ==
    /\ args.num_workers = 2
    /\ Len(jobs) = 2
    /\ \E s \in 1..MaxJobs : files[s].remove = 1 /\ ~files[s].original

\* C15: every result, collected or in flight, carries the RenderJob it
\* belongs to, and that job is exactly one of the submitted jobs, so that
\* the caller can tell which job a result is for whatever the arrival order.
C15_ResultCarriesItsJob ==
    \A r \in Pushed :
        Cardinality({k \in 1..Len(jobs) : jobs[k] = r.job}) = 1

\* With two workers, the result of the second job submitted was collected
\* before the result of the first.
C15_Witness ==
    /\ args.num_workers >= 2
    /\ Len(jobs) >= 2
    /\ Len(results) >= 2
    /\ results[1].job = jobs[2]
    /\ results[2].job = jobs[1]

\* count_frames.py has printed its count for the job.
Counted == spc \notin {"idle", "count"}

\* total_frames = end_frame - start_frame + 1 of the job's source action.
TotalFrames == scene.frame_end - scene.frame_start + 1

SampledFrames ==
    {f \in scene.frame_start..scene.frame_end :
        (f - scene.frame_start) % frame_step(script_args.fps) = 0}

\* C17: for a job that completes without error, frames_rendered in its
\* result equals the number of frame images the renderer wrote, which is
\* the number of sampled frames.
C17_FramesRenderedIsFramesWritten ==
    (spc = "done" /\ ~job_result.error) =>
        /\ Len(frames_written) = Cardinality(SampledFrames)
        /\ job_result.frames_rendered = Len(frames_written)

\* The per-frame boxes B1..Bn of the frames sampled so far.
FrameBoxes ==
    {calculate_bbox_for_frame(frame_poses[k].pose) : k \in 1..Len(frame_poses)}

\* Elementwise minimum and maximum of a set of boxes, whatever their order.
BoundsOf(B) ==
    [min_x |-> Fin(SetMin({b.min_x : b \in B})),
     max_x |-> Fin(SetMax({b.max_x : b \in B})),
     min_y |-> Fin(SetMin({b.min_y : b \in B})),
     max_y |-> Fin(SetMax({b.max_y : b \in B})),
     min_z |-> Fin(SetMin({b.min_z : b \in B})),
     max_z |-> Fin(SetMax({b.max_z : b \in B}))]

\* C18: once at least one frame has been sampled, the accumulated global
\* bounds are, on each of the three axes, the minimum of the per-frame
\* minima and the maximum of the per-frame maxima of the set of boxes
\* visited, which does not depend on the order of the visits.
C18_GlobalBoundsAreElementwiseMinMax ==
    frame_poses # <<>> => global_bounds = BoundsOf(FrameBoxes)

\* The sampling loop is over after visiting frames with different boxes.
C18_Witness ==
    /\ spc = "camera"
    /\ Len(frame_poses) >= 2
    /\ Cardinality(FrameBoxes) >= 2
    /\ global_bounds \notin {BoundsOf({b}) : b \in FrameBoxes}

OnlyHips ==
    /\ Len(stick_in.pose) = 1
    /\ stick_in.pose[1].name.suffix = "Hips"

\* C20: for a PoseFrame that contains only a Hips joint the image has no
\* bone line and exactly one joint marker, at the horizontal centre: at
\* width/2 when the width is even, at a pixel next to width/2 when it is
\* odd.
C20_OnlyHipsIsOneCentredMarker ==
    (stick_img.drawn /\ OnlyHips) =>
        /\ stick_img.lines = <<>>
        /\ Len(stick_img.ellipses) = 1
        /\ IF stick_in.img_w % 2 = 0
           THEN 2 * stick_img.ellipses[1].u = stick_in.img_w
           ELSE Abs(2 * stick_img.ellipses[1].u - stick_in.img_w) = 1

\* The image of a Hips-only PoseFrame of an armature whose prefix is not
\* the one project_points_yz looks the hips up under.
C20_Witness ==
    /\ stick_img.drawn
    /\ OnlyHips
    /\ stick_in.pose[1].name.prefix = "mixamorig"
    /\ Len(stick_img.ellipses) = 1

\* The colour of pixel (x, y) as far as the markers decide it: the fill of
\* the last ellipse drawn with its centre on the pixel, <<>> when no marker
\* is centred there.
MarkerColourAt(img, x, y) ==
    LET on == {i \in 1..Len(img.ellipses) :
                 img.ellipses[i].u = x /\ img.ellipses[i].v = y}
    IN  IF on = {} THEN <<>> ELSE img.ellipses[SetMax(on)].fill

\* Two images have the same bone lines, the same markers and the same
\* colour at the centre of every marker.
SameImage(a, b) ==
    /\ a.lines = b.lines
    /\ {a.ellipses[i] : i \in 1..Len(a.ellipses)}
         = {b.ellipses[i] : i \in 1..Len(b.ellipses)}
    /\ \A i \in 1..Len(a.ellipses) :
         MarkerColourAt(a, a.ellipses[i].u, a.ellipses[i].v)
           = MarkerColourAt(b, a.ellipses[i].u, a.ellipses[i].v)

\* C21: two calls of the stick-figure renderer with the same PoseFrame and
\* the same image size return identical images, bones, markers and the
\* colour where markers of different body parts overlap included, whether
\* the second call is made in the same process or in another worker
\* process.
C21_StickImageIsDeterministic ==
    stick_img2.img.drawn => SameImage(stick_img, stick_img2.img)


\* The top-left corner of the aligned block that holds pixel c.
BlockOf(c, k) == <<(c[1] \div k) * k, (c[2] \div k) * k>>
Multiples ==
    /\ frame_image.img.size[1] % frame_image.pixel_size = 0
    /\ frame_image.img.size[2] % frame_image.pixel_size = 0

\* C22: for a frame whose width and height are multiples of pixel_size, each
\* aligned pixel_size x pixel_size block of the saved image has one colour,
\* the colour of an input pixel of the same block; with pixel_size = 1 the
\* saved image is the input.
C22_BlocksAreUniformFromOwnBlock ==
    (pixels.saved /\ Multiples) =>
        LET k == frame_image.pixel_size
            out == pixels.img
        IN  /\ DOMAIN out.px = DOMAIN frame_image.img.px
            /\ \A c \in DOMAIN out.px :
                  /\ out.px[c] = out.px[BlockOf(c, k)]
                  /\ \E d \in DOMAIN frame_image.img.px :
                        /\ BlockOf(d, k) = BlockOf(c, k)
                        /\ out.px[c] = frame_image.img.px[d]
            /\ (k = 1 => out = frame_image.img)

C22_Witness ==
    /\ pixels.saved
    /\ Multiples
    /\ frame_image.pixel_size = 2
    /\ frame_image.img.size = <<4, 2>>

\* C23: for every pixel_size >= 1 and every frame, pixelize_frames raises
\* nothing and saves an image of the size of the frame.
C23_PixelizeKeepsSizeWithoutError ==
    /\ pixels.raised = ""
    /\ pixels.saved => pixels.img.size = frame_image.img.size


\* _kill_workers has put its sentinels: main is in or past the join loop.
PastKill ==
    \/ mainpc \in {"join", "purge", "display", "done"}
    \/ mainpc = "raised" /\ raised = "OSError"
Sentinels(q) == {i \in 1..Len(q) : q[i] = None}
\* The workers that have taken a sentinel: GetJob alone leads to "exited",
\* on a None, and an exited worker takes nothing more.
TookSentinel == {w \in 1..workers : wpc[w] = "exited"}

\* C24: at most N sentinels are ever put and N once _kill_workers has put
\* them; a sentinel is put only after every job was put; every sentinel
\* put is in the queue or was taken by one worker that took no other; while
\* a sentinel is in the queue no job is in it; once all are joined every
\* worker has taken its sentinel.
C24_SentinelsFollowJobsOnePerWorker ==
    /\ pills <= args.num_workers
    /\ PastKill => pills = args.num_workers
    /\ pills > 0 => next_put = Len(jobs) + 1
    /\ Sentinels(job_queue) # {} => Sentinels(job_queue) = 1..Len(job_queue)
    /\ Cardinality(TookSentinel) + Cardinality(Sentinels(job_queue)) = pills
    /\ (PastKill /\ mainpc # "join") => TookSentinel = 1..args.num_workers

C24_Witness ==
    /\ mainpc = "done"
    /\ Len(jobs) = MaxJobs
    /\ pills = MaxWorkers
    /\ TookSentinel = 1..MaxWorkers


\* C25: every RenderJob of the enumeration is constructed, from the six
\* values the enumeration was given: once _create_jobs has run on two
\* existing directories no TypeError was raised.
C25_EnumeratedJobsAreConstructed ==
    (entry = "cli" /\ mainpc \notin {"spawn", "create"}
        /\ source_dir.exists /\ target_dir.exists) => raised # "TypeError"


\* C30: os.remove is called on a source only after copy2 on it has
\* completed; a copy2 that failed leaves the original as it was; a source
\* file that existed is, at every moment, in the source directory or in the
\* purge directory.
C30_OriginalRemovedOnlyAfterCopy ==
    \A s \in 1..MaxJobs :
        /\ files[s].remove > 0 => files[s].copy
        /\ (files[s].copy2 > 0 /\ ~files[s].copy) =>
              /\ files[s].remove = 0
              /\ files[s].original = (s <= source_dir.files)
        /\ s <= source_dir.files => (files[s].original \/ files[s].copy)

\* One source was copied and removed, then copy2 failed on another whose
\* original is still there.
C30_Witness ==
    \E s, t \in 1..MaxJobs :
        /\ files[s].copy /\ ~files[s].original /\ files[s].remove = 1
        /\ files[t].copy2 = 1 /\ ~files[t].copy /\ files[t].original
        /\ mainpc = "raised"


\* The source bones whose suffix is that of the target bone i.
SourceOf(i) ==
    {k \in 1..Len(source_arm) :
        source_arm[k].name.suffix = target_arm[i].name.suffix}
Transform(bone) ==
    <<bone.location, bone.rotation_quaternion, bone.scale>>

\* C26: after _retarget_armature every target bone whose suffix a source
\* bone has carries that source bone's location, rotation and scale,
\* every other target bone has the transform it had before, and nothing
\* was raised.
C26_RetargetCopiesMatchingKeepsOthers ==
    retargeted.done =>
        /\ retargeted.raised = ""
        /\ Len(retargeted.bones) = Len(target_arm)
        /\ \A i \in 1..Len(target_arm) :
              /\ retargeted.bones[i].name = target_arm[i].name
              /\ \A k \in SourceOf(i) :
                    Transform(retargeted.bones[i]) = Transform(source_arm[k])
              /\ SourceOf(i) = {} =>
                    Transform(retargeted.bones[i]) = Transform(target_arm[i])

\* Armatures of different prefixes, one target bone matched and one not.
C26_Witness ==
    /\ retargeted.done
    /\ source_arm[1].name.prefix # target_arm[1].name.prefix
    /\ \E i, k \in 1..Len(target_arm) :
          /\ SourceOf(i) # {}
          /\ SourceOf(k) = {}
          /\ Transform(retargeted.bones[i]) # Transform(retargeted.bones[k])


\* The marker of the Hips joint: the markers are drawn in the order in
\* which the matched suffixes were collected.
DrawOrder == Restrict(hash_order[1], Matched(stick_in.pose))
HipsMarker ==
    stick_img.ellipses[CHOOSE i \in 1..Len(DrawOrder) : DrawOrder[i] = "Hips"]

\* C27: for a PoseFrame with a joint named <prefix>:Hips, whatever the
\* prefix, the marker of the Hips joint is at the horizontal centre of the
\* image: at width/2 when the width is even, at a pixel next to width/2
\* when it is odd.
C27_HipsIsCentredForAnyPrefix ==
    (stick_img.drawn /\ "Hips" \in Matched(stick_in.pose)) =>
        IF stick_in.img_w % 2 = 0
        THEN 2 * HipsMarker.u = stick_in.img_w
        ELSE Abs(2 * HipsMarker.u - stick_in.img_w) = 1


\* Some joint of the PoseFrame is named <prefix>:<sfx>.
InPose(sfx) ==
    \E i \in 1..Len(stick_in.pose) : stick_in.pose[i].name.suffix = sfx
\* The topology pairs whose child and parent are both in the PoseFrame.
PairsInPose ==
    SelectSeq(BONE_CONNECTION_SUFFIXES,
              LAMBDA c : InPose(c[1]) /\ InPose(c[2]))
MarkerOf(sfx) ==
    stick_img.ellipses[CHOOSE i \in 1..Len(DrawOrder) : DrawOrder[i] = sfx]

\* C28: the bone lines of a stick-figure image are those of the topology
\* pairs whose child and parent suffix are both matched by a joint of the
\* PoseFrame, each from the child's point to the parent's and in the colour
\* of the child's body part; the markers are those of the joints with a
\* canonical suffix, so a joint with none has no marker and no bone.
C28_BonesJoinMatchedPairsInChildColour ==
    stick_img.drawn =>
        /\ Len(stick_img.lines) = Len(PairsInPose)
        /\ \A i \in 1..Len(PairsInPose) :
              LET child == PairsInPose[i][1]
                  parent == PairsInPose[i][2]
                  line == stick_img.lines[i]
              IN  /\ line.fill = BODY_PART_COLORS[BODY_PART_MAPPING(child)]
                  /\ line.p0 = [u |-> MarkerOf(child).u, v |-> MarkerOf(child).v]
                  /\ line.p1 = [u |-> MarkerOf(parent).u, v |-> MarkerOf(parent).v]
        /\ Len(stick_img.ellipses) =
              Cardinality({i \in 1..Len(stick_in.pose) :
                             stick_in.pose[i].name.suffix \in JOINT_SUFFIXES})

\* The image of LeftUpLeg and Hips: one bone in the colour of the left leg.
C28_Witness ==
    /\ stick_img.drawn
    /\ InPose("LeftUpLeg") /\ InPose("Hips")
    /\ Len(stick_img.lines) = 1
    /\ stick_img.lines[1].fill = BODY_PART_COLORS["left_leg"]
    /\ Len(stick_img.ellipses) = 2


\* The number a file name of decimal characters stands for.
DigitValue(c) == CHOOSE d \in 0..9 : Decimal(d) = <<c>>
RECURSIVE NumberOf(_)
NumberOf(cs) ==
    IF cs = <<>> THEN 0
    ELSE IF Head(cs) = "-" THEN 0 - NumberOf(Tail(cs))
    ELSE 10 * NumberOf(SubSeq(cs, 1, Len(cs) - 1)) + DigitValue(cs[Len(cs)])
\* The written files are one per PoseFrame, each numbered by the frame
\* index of its PoseFrame, no two under one name.
OnePerPoseFrame(written) ==
    /\ Len(written) = Len(poses)
    /\ \A k \in 1..Len(poses) : NumberOf(written[k].file) = poses[k].frame
    /\ Cardinality({written[k].file : k \in 1..Len(written)}) = Len(poses)

\* C29: the PoseSequence lists its PoseFrames by strictly increasing frame
\* index; once the render loop is over the frame images are one per
\* PoseFrame, numbered by its frame index, and once the projection step is
\* over so are the stick-figure images.
C29_OneNumberedImagePerPoseFrame ==
    /\ \A i, k \in 1..Len(poses) : i < k => poses[i].frame < poses[k].frame
    /\ spc \in {"stick", "result", "done"} => OnePerPoseFrame(frames_written)
    /\ (spc \in {"result", "done"} /\ poses # <<>>) =>
          OnePerPoseFrame(stick_written)

\* A finished job whose frames were sampled with a step above 1.
C29_Witness ==
    /\ spc = "done"
    /\ Len(poses) >= 2
    /\ poses[2].frame - poses[1].frame >= 2
    /\ Len(stick_written) = Len(poses)
    /\ Len(frames_written) = Len(poses)

============================================================================
